---- MODULE Spec2Model ----
(***************************************************************************)
(* Model of src/new_trainer.py: the Trainer of an image super-resolution   *)
(* network.  One Trainer instance lives in a process; train(check_point)   *)
(* runs the epoch loop of lines 46-97.  The file system (the checkpoint    *)
(* files written by save_checkpoint) outlives the instance and is shared   *)
(* by all runs.                                                            *)
(*                                                                         *)
(* The names the file uses without importing or defining them (os, sys,    *)
(* old_stdout, EvalPrediction, model, train_dataset, test_dataset,         *)
(* check_point) are taken to be bound by the enclosing session to their    *)
(* usual meaning; the model, the datasets and the metric computation are   *)
(* external and enter as inputs.                                           *)
(***************************************************************************)
EXTENDS Integers, Sequences, FiniteSets

\* ---------------------------------------------------------------- bounds
\* largest num_train_epochs tried
MaxEpochs == 3
\* largest len(train_dataset) tried
MaxTrain == 2
\* number of train() calls in one behaviour
MaxRuns == 2
\* len(self.test_dataset) when there is one
TestLen == 2

\* train_batch_size values tried: 1 gives one batch per sample, 200 gives
\* step_size = len(train_dataset), 400 gives step_size 0 for one sample
BatchSizes == {1, 200, 400}
\* args.output_dir values tried: the default and another one
OutputDirs == {"checkpoint", "out"}
\* args.save_steps values tried: the default and every epoch
SaveSteps == {500, 1}
\* loss values a training batch may produce: two finite ones and a
\* non-finite one (nan or inf)
Losses == {[v |-> 1, finite |-> TRUE], [v |-> 2, finite |-> TRUE],
           [v |-> 0, finite |-> FALSE]}
\* average PSNR values an evaluation pass may return (0 is the initial
\* best_metric, so 0 is a tie with the sentinel)
PSNRs == {0, 1, 2}

\* ----------------------------------------------------------------- state
VARIABLES
    args,         \* TrainArgs: num_train_epochs, train_batch_size, output_dir, save_steps
    trainNone,    \* self.train_dataset is None
    testNone,     \* self.test_dataset is None
    trainLen,     \* len(self.train_dataset)
    psnrOf,       \* epoch_psnr.avg the evaluation of epoch e returns (deterministic seeding)
    best_epoch,   \* self.best_epoch
    best_metric,  \* self.best_metric
    seen,         \* epochs this Trainer instance has evaluated, in order
    params,       \* self.model's parameters: the optimizer updates applied so far
    training,     \* self.model.training: TRUE in training mode, FALSE in inference mode
    pc,           \* position of the control thread
    calls,        \* train() calls made on this Trainer instance
    raised,       \* the exception that ended the last train() call, "" if none
    check_point,  \* train's argument: a path, NoPath for None
    checkpoint,   \* local checkpoint of train: what torch.load returned, line 57
    start_epoch,  \* local start_epoch of train
    epoch,        \* loop variable of line 64
    step_size,    \* local step_size of train
    lr,           \* optimizer.param_groups[..]['lr'] = learning_rate * 0.1^k * gamma^g
    last_epoch,   \* scheduler.last_epoch: scheduler steps taken since line 62
    optSteps,     \* optimizer steps taken since line 61 (Adam's step count)
    batch,        \* batches of train_dataloader consumed in this epoch
    epoch_losses, \* local epoch_losses of train: the AverageMeter of line 68, an
                  \* empty one while the call has not reached line 68
    epoch_batches,\* the batches this epoch has trained: loss -> the len(inputs) of
                  \* the batches that produced it, added up
    loss_writer,  \* SummaryWriter('runs/loss_graph'): samples, how many are flushed, open
    psnr_writer,  \* SummaryWriter('runs/PSNR_graph'): samples, how many are flushed, open
    log_file,     \* the run log: the epochs of its lines, open
    files,        \* checkpoint files on disk: path -> {"epoch", "model"}
    dirs,         \* directories that exist
    trained,      \* epochs whose training this train() call has started, in order
    written,      \* epochs this train() call has checkpointed, in order
    evaluated,    \* epochs this train() call has evaluated, in order
    runs          \* train() calls made so far

vars == <<args, trainNone, testNone, trainLen, psnrOf, best_epoch, best_metric,
          seen, params, training, pc, calls, raised, check_point, checkpoint,
          start_epoch, epoch, step_size, lr, last_epoch, optSteps, batch,
          epoch_losses, epoch_batches, loss_writer, psnr_writer, log_file,
          files, dirs, trained, written, evaluated, runs>>

config == <<args, trainNone, testNone, trainLen, psnrOf>>
instance == <<best_epoch, best_metric, seen>>
disk == <<files, dirs>>
history == <<trained, written, evaluated>>
locals == <<check_point, checkpoint, start_epoch, epoch, step_size>>
optimizer == <<lr, last_epoch, optSteps>>
meter == <<epoch_losses, epoch_batches>>
sinks == <<loss_writer, psnr_writer, log_file>>

\* check_point = None
NoPath == [folder |-> "", epoch |-> 0]
\* no checkpoint loaded
NoCheckpoint == [epoch |-> 0, model |-> <<>>]

\* ------------------------------------------------------ pure computations
\* int(num_train_epochs * 0.8): the double product truncated; for the
\* integers in range this is floor(4 * n / 5)
Threshold(n) == (n * 4) \div 5

\* epoch // int(num_train_epochs * 0.8), the exponent of 0.1 at line 66
EpochExp(e, n) == e \div Threshold(n)

\* the learning rate line 66 assigns: learning_rate * 0.1^k, no gamma factor
EpochLr(e, n) == [k |-> EpochExp(e, n), g |-> 0]

\* a period that truncates the quotient before multiplying
StepSizeFloorsQuotient(n, b) == (n \div b) * 200

\* int(len(train_dataset) / train_batch_size * 200), line 53
StepSize(n, b) == (n * 200) \div b

\* batches one pass over the DataLoader of line 112 yields (drop_last unset)
NumBatches(n, b) == (n + b - 1) \div b

\* the folder save_checkpoint writes to, line 100
ModelFolder(a) == "checkpoint"

\* model_out_path of line 101
ModelOutPath(a, e) == [folder |-> ModelFolder(a), epoch |-> e]

\* state of line 102
CheckpointState(e, m) == [epoch |-> e, model |-> m]

\* a comparison that lets an equal value move the best
ImprovesOrTies(psnr, best) == psnr >= best

\* the comparison of line 147
Improves(psnr, best) == psnr > best

\* lines 147-149: the new <<best_epoch, best_metric>>
BestAfterEval(be, bm, psnr, e) ==
    IF Improves(psnr, bm) THEN <<e, psnr>> ELSE <<be, bm>>

\* StepLR.get_lr at scheduler.step(), line 82: every step_size-th step
\* multiplies the rate the optimizer holds by gamma
ScheduledLr(rate, count, size) ==
    IF count % size = 0 THEN [rate EXCEPT !.g = @ + 1] ELSE rate

\* len(inputs) of the batch after i batches of the epoch: the last one may be short
BatchLen(n, b, i) == IF n - i * b < b THEN n - i * b ELSE b

\* no batch trained yet
NoBatches == [l \in Losses |-> 0]

\* AverageMeter(): nothing accumulated
MeterNew == [sum |-> 0, count |-> 0, finite |-> TRUE]

\* AverageMeter.update(value, weight): sum += value * weight, count += weight;
\* a non-finite value makes the sum non-finite for good
MeterUpdate(m, l, w) ==
    [sum |-> IF m.finite /\ l.finite THEN m.sum + l.v * w ELSE 0,
     count |-> m.count + w,
     finite |-> m.finite /\ l.finite]

\* AverageMeter.avg: sum / count as the fraction num / den, 0 before any update
MeterAvg(m) ==
    IF m.count = 0 THEN [num |-> 0, den |-> 1, finite |-> TRUE]
    ELSE [num |-> m.sum, den |-> m.count, finite |-> m.finite]

\* the meter after the updates of the <<value, weight>> pairs of s, from m
RECURSIVE MeterFold(_, _)
MeterFold(m, s) ==
    IF s = <<>> THEN m
    ELSE MeterFold(MeterUpdate(m, s[1].loss, s[1].size), Tail(s))

\* metrics['psnr'] of the samples of the evaluation set at epoch e, lines
\* 138-140: values whose mean is psnrOf[e]
EvalMetrics(e) ==
    [i \in 1..TestLen |->
        [loss |-> [v |-> IF i = 1 THEN TestLen * psnrOf[e] ELSE 0, finite |-> TRUE],
         size |-> 1]]

\* epoch_psnr.avg after the evaluation pass of epoch e, lines 123-141: a new
\* meter updated once per sample with weight len(inputs) = 1
EvalAverage(e) ==
    LET a == MeterAvg(MeterFold(MeterNew, EvalMetrics(e)))
    IN a.num \div a.den

\* SummaryWriter and file operations
NewWriter == [samples |-> <<>>, flushed |-> 0, open |-> TRUE]
AddScalar(w, tag, step) ==
    [w EXCEPT !.samples = Append(@, [tag |-> tag, step |-> step]), !.open = TRUE]
Flushed(w) == [w EXCEPT !.flushed = Len(w.samples)]
Closed(w) == [w EXCEPT !.flushed = Len(w.samples), !.open = FALSE]
NewLog == [lines |-> <<>>, open |-> TRUE]

\* ------------------------------------------------------------------ Init
\* lines 161-166: the arguments, the datasets, the sinks and a fresh Trainer
Init ==
    /\ args \in {a \in [num_train_epochs : 1..MaxEpochs, train_batch_size : BatchSizes,
                         output_dir : OutputDirs, save_steps : SaveSteps] :
                    \* both fields at their defaults, or both away from them
                    a.output_dir = "checkpoint" <=> a.save_steps = 500}
    /\ trainNone \in BOOLEAN
    /\ testNone \in BOOLEAN
    /\ trainLen \in (IF trainNone THEN {0} ELSE 0..MaxTrain)
    /\ psnrOf \in (IF testNone \/ trainNone
                   THEN {[e \in 1..args.num_train_epochs |-> 0]}
                   ELSE [1..args.num_train_epochs -> PSNRs])
    /\ best_epoch = 0
    /\ best_metric = 0
    /\ seen = <<>>
    /\ params = <<>>
    /\ training = TRUE
    /\ pc = "idle"
    /\ calls = 0
    /\ raised = ""
    /\ check_point = NoPath
    /\ checkpoint = NoCheckpoint
    /\ start_epoch = 1
    /\ epoch = 0
    /\ step_size = 0
    /\ lr = [k |-> 0, g |-> 0]
    /\ last_epoch = 0
    /\ optSteps = 0
    /\ batch = 0
    /\ epoch_losses = MeterNew
    /\ epoch_batches = NoBatches
    /\ loss_writer = NewWriter
    /\ psnr_writer = NewWriter
    /\ log_file = NewLog
    /\ files = << >>
    /\ dirs = {}
    /\ trained = <<>>
    /\ written = <<>>
    /\ evaluated = <<>>
    /\ runs = 0

Returned == pc \in {"idle", "done", "error"}

\* --------------------------------------------------------------- actions
\* a constructor that takes over the best of the Trainer before it
ConstructKeepsBest ==
    /\ pc \in {"done", "error"}
    /\ runs < MaxRuns
    /\ seen' = <<>>
    /\ params' = <<>>
    /\ training' = TRUE
    /\ calls' = 0
    /\ raised' = ""
    /\ pc' = "idle"
    /\ loss_writer' = NewWriter
    /\ psnr_writer' = NewWriter
    /\ log_file' = NewLog
    /\ epoch_losses' = MeterNew
    /\ epoch_batches' = NoBatches
    /\ UNCHANGED <<config, best_epoch, best_metric, disk, history, locals,
                   optimizer, batch, runs>>

\* lines 31-38 and 161-166: a new process opens new sinks and constructs a
\* new Trainer around a new model
Construct ==
    /\ pc \in {"done", "error"}
    /\ runs < MaxRuns
    /\ best_epoch' = 0
    /\ best_metric' = 0
    /\ seen' = <<>>
    /\ params' = <<>>
    /\ training' = TRUE
    /\ calls' = 0
    /\ raised' = ""
    /\ pc' = "idle"
    /\ loss_writer' = NewWriter
    /\ psnr_writer' = NewWriter
    /\ log_file' = NewLog
    /\ epoch_losses' = MeterNew
    /\ epoch_batches' = NoBatches
    /\ UNCHANGED <<config, disk, history, locals, optimizer, batch, runs>>

\* what lines 47-62 leave, given the argument, the checkpoint loaded, the
\* epoch to start at and the parameters the model then holds
Enter(path, loaded, first, model) ==
    /\ check_point' = path
    /\ checkpoint' = loaded
    /\ start_epoch' = first
    /\ epoch' = first
    /\ params' = model
    /\ step_size' = StepSize(trainLen, args.train_batch_size)
    /\ lr' = [k |-> 0, g |-> 0]
    /\ last_epoch' = 0
    /\ optSteps' = 0
    /\ batch' = 0
    /\ trained' = <<>>
    /\ written' = <<>>
    /\ evaluated' = <<>>
    /\ runs' = runs + 1
    /\ calls' = calls + 1
    /\ raised' = ""
    /\ pc' = "loop"
    /\ epoch_losses' = MeterNew
    /\ epoch_batches' = NoBatches
    /\ UNCHANGED <<config, instance, disk, training, sinks>>

\* what a train() call that raises before line 61 leaves
Abort(path, error) ==
    /\ check_point' = path
    /\ checkpoint' = NoCheckpoint
    /\ start_epoch' = 1
    /\ trained' = <<>>
    /\ written' = <<>>
    /\ evaluated' = <<>>
    /\ runs' = runs + 1
    /\ calls' = calls + 1
    /\ raised' = error
    /\ pc' = "error"
    /\ epoch_losses' = MeterNew
    /\ epoch_batches' = NoBatches
    /\ UNCHANGED <<config, instance, disk, params, training, epoch, optimizer,
                   batch, sinks>>

\* a missing training dataset noticed only after the checkpoint is loaded
TrainMissingDatasetLate ==
    /\ Returned
    /\ runs < MaxRuns
    /\ trainNone
    /\ \E path \in {NoPath, ModelOutPath(args, 1)} :
          /\ check_point' = path
          /\ checkpoint' = CheckpointState(path.epoch, <<>>)
    /\ start_epoch' = check_point'.epoch + 1
    /\ trained' = <<>>
    /\ written' = <<>>
    /\ evaluated' = <<>>
    /\ runs' = runs + 1
    /\ calls' = calls + 1
    /\ raised' = "ValueError:110"
    /\ pc' = "error"
    /\ epoch_losses' = MeterNew
    /\ epoch_batches' = NoBatches
    /\ UNCHANGED <<config, instance, disk, params, training, epoch, optimizer,
                   batch, sinks, step_size>>

\* lines 46-52 and 108-110 with train_dataset None: get_train_dataloader raises
\* before the check_point argument is looked at
TrainMissingDataset ==
    /\ Returned
    /\ runs < MaxRuns
    /\ trainNone
    /\ \E path \in {NoPath, ModelOutPath(args, 1)} : Abort(path, "ValueError:110")
    /\ UNCHANGED step_size

\* lines 46-62 with check_point None
TrainFresh ==
    /\ Returned
    /\ runs < MaxRuns
    /\ ~trainNone
    /\ Enter(NoPath, NoCheckpoint, 1, params)

\* a resume that starts at the checkpoint's own epoch
TrainResumeSameEpoch ==
    /\ Returned
    /\ runs < MaxRuns
    /\ ~trainNone
    /\ \E p \in DOMAIN files :
          Enter(p, files[p], files[p].epoch, files[p].model)

\* lines 46-62 with the path of an existing checkpoint file
TrainResume ==
    /\ Returned
    /\ runs < MaxRuns
    /\ ~trainNone
    /\ \E p \in DOMAIN files :
          Enter(p, files[p], files[p].epoch + 1, files[p].model)

\* a load failure that falls back to a fresh start
TrainLoadFallsBack ==
    /\ Returned
    /\ runs < MaxRuns
    /\ ~trainNone
    /\ \E e \in 1..(args.num_train_epochs + 1) :
          /\ ModelOutPath(args, e) \notin DOMAIN files
          /\ Enter(ModelOutPath(args, e), NoCheckpoint, 1, params)

\* lines 46-57 with a path torch.load cannot read: the error propagates
TrainLoadFails ==
    /\ Returned
    /\ runs < MaxRuns
    /\ ~trainNone
    /\ \E e \in 1..(args.num_train_epochs + 1) :
          /\ ModelOutPath(args, e) \notin DOMAIN files
          /\ Abort(ModelOutPath(args, e), "LoadError:57")
    /\ step_size' = StepSize(trainLen, args.train_batch_size)

\* lines 46-52 with an empty train_dataset, where the DataLoader's random
\* sampler (shuffle=True, line 115) rejects a dataset of length 0; a sampler
\* that accepts it lets TrainFresh or TrainResume run with no batches
TrainEmptyDataset ==
    /\ Returned
    /\ runs < MaxRuns
    /\ ~trainNone
    /\ trainLen = 0
    /\ \E path \in {NoPath} \cup DOMAIN files : Abort(path, "ValueError:52")
    /\ UNCHANGED step_size

\* what lines 64-68 leave, given the rate assigned, the mode and the meter
Begin(rate, mode, losses) ==
    /\ epoch <= args.num_train_epochs
    /\ Threshold(args.num_train_epochs) # 0
    /\ lr' = rate
    /\ training' = mode
    /\ epoch_losses' = losses
    /\ epoch_batches' = NoBatches
    /\ batch' = 0
    /\ trained' = Append(trained, epoch)
    /\ pc' = "batch"
    /\ UNCHANGED <<config, instance, disk, params, calls, raised, locals,
                   last_epoch, optSteps, written, evaluated, runs, sinks>>

\* an epoch start that scales the rate the optimizer holds instead of assigning it
EpochBeginKeepsDecay ==
    /\ pc = "loop"
    /\ Begin([k |-> EpochExp(epoch, args.num_train_epochs), g |-> lr.g], TRUE, MeterNew)

\* an epoch start that leaves the model in the mode the evaluation left it in
EpochBeginKeepsMode ==
    /\ pc = "loop"
    /\ Begin(EpochLr(epoch, args.num_train_epochs), training, MeterNew)

\* an epoch start that goes on with the meter of the epoch before
EpochBeginKeepsMeter ==
    /\ pc = "loop"
    /\ Begin(EpochLr(epoch, args.num_train_epochs), TRUE, epoch_losses)

\* lines 64-68: the next epoch starts; line 66 assigns the epoch-level rate,
\* line 67 puts the model in training mode, line 68 makes a new meter
EpochBegin ==
    /\ pc = "loop"
    /\ Begin(EpochLr(epoch, args.num_train_epochs), TRUE, MeterNew)

\* line 66 when int(num_train_epochs * 0.8) is 0: epoch // 0 raises
EpochDivisionByZero ==
    /\ pc = "loop"
    /\ epoch <= args.num_train_epochs
    /\ Threshold(args.num_train_epochs) = 0
    /\ raised' = "ZeroDivisionError:66"
    /\ pc' = "error"
    /\ UNCHANGED <<config, instance, disk, params, training, calls, locals,
                   optimizer, batch, meter, sinks, history, runs>>

\* lines 72-81: forward pass, loss, meter update, backward pass and
\* optimizer.step() of one batch; the update uses the rate the optimizer
\* holds now, and nothing looks at whether the loss is finite
OptimizerStep ==
    /\ pc = "batch"
    /\ batch < NumBatches(trainLen, args.train_batch_size)
    /\ \E loss \in Losses :
          LET size == BatchLen(trainLen, args.train_batch_size, batch)
          IN /\ epoch_losses' = MeterUpdate(epoch_losses, loss, size)
             /\ epoch_batches' = [epoch_batches EXCEPT ![loss] = @ + size]
    /\ params' = Append(params, [k |-> lr.k, g |-> lr.g, t |-> optSteps + 1])
    /\ optSteps' = optSteps + 1
    /\ pc' = "sched"
    /\ UNCHANGED <<config, instance, disk, training, calls, raised, locals, lr,
                   last_epoch, batch, sinks, history, runs>>

\* lines 82-85: scheduler.step() after the batch's optimizer step
SchedulerStep ==
    /\ pc = "sched"
    /\ step_size # 0
    /\ last_epoch' = last_epoch + 1
    /\ lr' = ScheduledLr(lr, last_epoch + 1, step_size)
    /\ batch' = batch + 1
    /\ pc' = "batch"
    /\ UNCHANGED <<config, instance, disk, params, training, calls, raised,
                   locals, optSteps, meter, sinks, history, runs>>

\* line 82 with step_size 0: last_epoch % step_size raises
SchedulerDivisionByZero ==
    /\ pc = "sched"
    /\ step_size = 0
    /\ last_epoch' = last_epoch + 1
    /\ raised' = "ZeroDivisionError:82"
    /\ pc' = "error"
    /\ UNCHANGED <<config, instance, disk, params, training, calls, locals, lr,
                   optSteps, batch, meter, sinks, history, runs>>

\* an epoch end that goes on to the evaluation without saving
LogEpochSkipsSave ==
    /\ pc = "batch"
    /\ batch = NumBatches(trainLen, args.train_batch_size)
    /\ log_file.open
    /\ loss_writer' = AddScalar(loss_writer, "Loss/epoch", epoch)
    /\ log_file' = [log_file EXCEPT !.lines = Append(@, epoch)]
    /\ pc' = "eval"
    /\ UNCHANGED <<config, instance, disk, params, training, calls, raised,
                   locals, optimizer, batch, meter, psnr_writer, history, runs>>

\* lines 87-90: the DataLoader is exhausted; epoch_losses.avg goes to
\* loss_writer under "Loss/epoch" and into a line of the log
LogEpoch ==
    /\ pc = "batch"
    /\ batch = NumBatches(trainLen, args.train_batch_size)
    /\ log_file.open
    /\ loss_writer' = AddScalar(loss_writer, "Loss/epoch", epoch)
    /\ log_file' = [log_file EXCEPT !.lines = Append(@, epoch)]
    /\ pc' = "save"
    /\ UNCHANGED <<config, instance, disk, params, training, calls, raised,
                   locals, optimizer, batch, meter, psnr_writer, history, runs>>

\* lines 87-89 when an earlier train() call of the process has closed
\* log_file (line 97): the sample is written, the print raises
LogEpochClosedLog ==
    /\ pc = "batch"
    /\ batch = NumBatches(trainLen, args.train_batch_size)
    /\ ~log_file.open
    /\ loss_writer' = AddScalar(loss_writer, "Loss/epoch", epoch)
    /\ raised' = "ValueError:89"
    /\ pc' = "error"
    /\ UNCHANGED <<config, instance, disk, params, training, calls, locals,
                   optimizer, batch, meter, psnr_writer, log_file, history, runs>>

\* a save that keeps only the newest checkpoint
SavedAlone(fs, path, state) == [q \in {path} |-> state]

\* the mapping torch.save leaves on disk, line 105
Saved(fs, path, state) ==
    [q \in DOMAIN fs \cup {path} |-> IF q = path THEN state ELSE fs[q]]

\* a save that honours save_steps: only every save_steps-th epoch is written
SaveCheckpointEverySaveSteps ==
    /\ pc = "save"
    /\ dirs' = dirs \cup {ModelFolder(args)}
    /\ files' = IF epoch % args.save_steps = 0
                THEN Saved(files, ModelOutPath(args, epoch), CheckpointState(epoch, params))
                ELSE files
    /\ written' = Append(written, epoch)
    /\ pc' = "eval"
    /\ UNCHANGED <<config, instance, params, training, calls, raised, locals,
                   optimizer, batch, meter, sinks, trained, evaluated, runs>>

\* lines 91 and 99-106: save_checkpoint(self.model, epoch)
SaveCheckpoint ==
    /\ pc = "save"
    /\ dirs' = dirs \cup {ModelFolder(args)}
    /\ files' = Saved(files, ModelOutPath(args, epoch), CheckpointState(epoch, params))
    /\ written' = Append(written, epoch)
    /\ pc' = "eval"
    /\ UNCHANGED <<config, instance, params, training, calls, raised, locals,
                   optimizer, batch, meter, sinks, trained, evaluated, runs>>

\* lines 92 and 120-151: self.eval(epoch); line 126 puts the model in
\* inference mode before the samples, line 144 sends the PSNR to loss_writer,
\* line 145 flushes psnr_writer
Eval ==
    /\ pc = "eval"
    /\ ~testNone
    /\ training' = FALSE
    /\ LET b == BestAfterEval(best_epoch, best_metric, EvalAverage(epoch), epoch)
       IN /\ best_epoch' = b[1]
          /\ best_metric' = b[2]
    /\ seen' = Append(seen, epoch)
    /\ loss_writer' = AddScalar(loss_writer, "PSNR/epoch", epoch)
    /\ psnr_writer' = Flushed(psnr_writer)
    /\ evaluated' = Append(evaluated, epoch)
    /\ pc' = "flush"
    /\ UNCHANGED <<config, disk, params, calls, raised, locals, optimizer,
                   batch, meter, log_file, trained, written, runs>>

\* lines 92 and 120-128 with test_dataset None: the DataLoader of line 156 is
\* built, the model goes to inference mode, and iterating raises
EvalMissingDataset ==
    /\ pc = "eval"
    /\ testNone
    /\ training' = FALSE
    /\ raised' = "TypeError:128"
    /\ pc' = "error"
    /\ UNCHANGED <<config, instance, disk, params, calls, locals, optimizer,
                   batch, meter, sinks, history, runs>>

\* an epoch end that flushes nothing
FlushNothing ==
    /\ pc = "flush"
    /\ epoch' = epoch + 1
    /\ pc' = "loop"
    /\ UNCHANGED <<config, instance, disk, params, training, calls, raised,
                   check_point, checkpoint, start_epoch, step_size, optimizer,
                   batch, meter, sinks, history, runs>>

\* line 93, loss_writer.flush(), and the loop's increment
Flush ==
    /\ pc = "flush"
    /\ loss_writer' = Flushed(loss_writer)
    /\ epoch' = epoch + 1
    /\ pc' = "loop"
    /\ UNCHANGED <<config, instance, disk, params, training, calls, raised,
                   check_point, checkpoint, start_epoch, step_size, optimizer,
                   batch, meter, psnr_writer, log_file, history, runs>>

\* lines 95-97: range(start_epoch, num_train_epochs + 1) is exhausted; the
\* sinks and the log are closed
Finish ==
    /\ pc = "loop"
    /\ epoch > args.num_train_epochs
    /\ loss_writer' = Closed(loss_writer)
    /\ psnr_writer' = Closed(psnr_writer)
    /\ log_file' = [log_file EXCEPT !.open = FALSE]
    /\ pc' = "done"
    /\ UNCHANGED <<config, instance, disk, params, training, calls, raised,
                   locals, optimizer, batch, meter, history, runs>>

Next ==
    \/ Construct
    \/ TrainMissingDataset
    \/ TrainFresh
    \/ TrainResume
    \/ TrainLoadFails
    \/ TrainEmptyDataset
    \/ EpochBegin
    \/ EpochDivisionByZero
    \/ OptimizerStep
    \/ SchedulerStep
    \/ SchedulerDivisionByZero
    \/ LogEpoch
    \/ LogEpochClosedLog
    \/ SaveCheckpoint
    \/ Eval
    \/ EvalMissingDataset
    \/ Flush
    \/ Finish

Spec == Init /\ [][Next]_vars

\* ------------------------------------------------------ reference values
\* <<best_epoch, best_metric>> of a fresh Trainer after an uninterrupted run
\* has evaluated epochs 1..e: lines 37-38, then lines 147-149 once per epoch
RECURSIVE BestThrough(_)
BestThrough(e) ==
    IF e = 0 THEN <<0, 0>>
    ELSE LET b == BestThrough(e - 1)
         IN BestAfterEval(b[1], b[2], psnrOf[e], e)

\* the parameters were produced from the initial model by one optimizer,
\* without a resume in between: its step counts are 1, 2, 3, ...
Uninterrupted(model) == \A i \in DOMAIN model : model[i].t = i

\* the sequence first, first + 1, ... of the length of s
Consecutive(s, first) == \A i \in DOMAIN s : s[i] = first + i - 1

\* s is an initial part of t
IsPrefix(s, t) == Len(s) <= Len(t) /\ \A i \in DOMAIN s : s[i] = t[i]

\* number of epochs range(first, num_train_epochs + 1) yields
EpochsFrom(first) ==
    IF first > args.num_train_epochs THEN 0 ELSE args.num_train_epochs - first + 1

\* ---------------------------------------------------------------- claims

\* C1 (as stated): the checkpoint of epoch e is persisted only after the
\* evaluation of epoch e has completed: every epoch this run has written
\* has been evaluated by it.
CheckpointAfterEvaluation ==
    \A i \in DOMAIN written : \E j \in DOMAIN evaluated : evaluated[j] = written[i]

\* C1 (amended): in every epoch e the order is Running(e) -> Checkpointing(e)
\* -> Evaluating(e): the checkpoint of e is written after all training batches
\* of e and before the evaluation of e; a batch of an epoch is trained only
\* when every earlier epoch of the run is both checkpointed and evaluated.
PhaseOrder ==
    /\ IsPrefix(evaluated, written)
    /\ IsPrefix(written, trained)
    /\ Len(trained) <= Len(evaluated) + 1
    /\ pc \in {"batch", "sched"} =>
          /\ Len(trained) = Len(written) + 1
          /\ evaluated = written
          /\ trained[Len(trained)] = epoch
    /\ pc = "save" =>
          /\ batch = NumBatches(trainLen, args.train_batch_size)
          /\ Len(trained) = Len(written) + 1
          /\ evaluated = written
    /\ pc = "eval" =>
          /\ written = trained
          /\ written[Len(written)] = epoch
          /\ Len(written) = Len(evaluated) + 1
    /\ pc \in {"flush", "loop", "done"} => evaluated = trained

\* C1 witness: the checkpoint of the run's second epoch is on disk, its
\* batches are trained and its evaluation has not happened yet.
CheckpointedNotYetEvaluated ==
    /\ pc = "eval"
    /\ Len(written) = 2
    /\ Len(evaluated) = 1
    /\ batch > 0
    /\ ModelOutPath(args, epoch) \in DOMAIN files

\* C2: within one Trainer instance best_metric never decreases; best_epoch
\* changes only together with a strict increase of best_metric, only in an
\* evaluation, and only to the epoch evaluated, whose PSNR is strictly above
\* the previous best_metric; an evaluation whose PSNR equals best_metric
\* changes neither.
BestMonotone ==
    [][calls' >= calls =>
        /\ best_metric' >= best_metric
        /\ best_epoch' # best_epoch =>
              /\ best_metric' > best_metric
              /\ pc = "eval"
              /\ best_epoch' = epoch
              /\ psnrOf[epoch] > best_metric
              /\ best_metric' = psnrOf[epoch]
        /\ best_metric' # best_metric => pc = "eval" /\ best_metric' = psnrOf[epoch]
        /\ (pc = "eval" /\ pc' = "flush" /\ psnrOf[epoch] = best_metric) =>
              (best_epoch' = best_epoch /\ best_metric' = best_metric)]_vars

\* C2 witness: an epoch whose PSNR equals the best of an earlier epoch has
\* been evaluated, and best_epoch is still the earlier one.
TieKeptEarlierBest ==
    /\ pc = "flush"
    /\ psnrOf[epoch] = best_metric
    /\ best_epoch > 0
    /\ best_epoch < epoch

\* C3: with a checkpoint of embedded epoch K the first epoch is K + 1, without
\* one it is 1; the epochs trained, checkpointed and evaluated are consecutive
\* from the first one, none above num_train_epochs, and a run that returns
\* normally has processed all of them.
ResumeContinues ==
    /\ start_epoch = (IF check_point = NoPath THEN 1 ELSE checkpoint.epoch + 1)
    /\ Consecutive(trained, start_epoch)
    /\ Consecutive(written, start_epoch)
    /\ Consecutive(evaluated, start_epoch)
    /\ Len(trained) <= EpochsFrom(start_epoch)
    /\ pc = "done" =>
          /\ Len(trained) = EpochsFrom(start_epoch)
          /\ Len(written) = EpochsFrom(start_epoch)
          /\ Len(evaluated) = EpochsFrom(start_epoch)

\* C3 witness: a run resumed from the epoch-1 checkpoint has returned after
\* processing exactly epochs 2 and 3.
ResumedFromOneDone ==
    /\ pc = "done"
    /\ check_point # NoPath
    /\ checkpoint.epoch = 1
    /\ trained = <<2, 3>>
    /\ written = <<2, 3>>
    /\ evaluated = <<2, 3>>

\* C4 (as stated, its best-tracking part): a fresh Trainer that resumes from
\* the epoch-K checkpoint of an uninterrupted run and runs to the last epoch
\* ends with the best_epoch and best_metric of the uninterrupted run, the
\* evaluations returning the same PSNR per epoch in both.
ResumeMatchesUninterrupted ==
    (/\ pc = "done"
     /\ calls = 1
     /\ trainLen > 0
     /\ check_point # NoPath
     /\ checkpoint.epoch < args.num_train_epochs
     /\ Uninterrupted(checkpoint.model))
    => <<best_epoch, best_metric>> = BestThrough(args.num_train_epochs)

\* C5: when a fresh run has returned normally, every epoch 1..num_train_epochs
\* has exactly one checkpoint file, named by the epoch and embedding it, and
\* there is no other file (all runs of a behaviour share num_train_epochs).
FreshRunCheckpoints ==
    (pc = "done" /\ check_point = NoPath) =>
        /\ \A e \in 1..args.num_train_epochs :
              /\ Cardinality({p \in DOMAIN files : p.epoch = e}) = 1
              /\ \A p \in DOMAIN files : p.epoch = e => files[p].epoch = e
        /\ \A p \in DOMAIN files : p.epoch \in 1..args.num_train_epochs

\* C5 witness: a fresh run of three epochs with save_steps = 500 has returned;
\* epochs 2 and 3 produced no new best.
FreshRunDoneNoNewBest ==
    /\ pc = "done"
    /\ check_point = NoPath
    /\ runs = 1
    /\ args.num_train_epochs = 3
    /\ args.save_steps = 500
    /\ best_epoch = 1
    /\ Cardinality(DOMAIN files) = 3

\* C6 (as stated): the content of an existing checkpoint file never changes
\* and the file is never deleted, over any sequence of runs.
CheckpointsNeverChange ==
    [][\A p \in DOMAIN files : p \in DOMAIN files' /\ files'[p] = files[p]]_vars

\* C6 (amended): no checkpoint file is ever deleted, and the only step that
\* changes the content of an existing file is the save of the epoch the file
\* is named by, which a train() call performs at most once per epoch.
CheckpointsWrittenOncePerRun ==
    [][\A p \in DOMAIN files :
          /\ p \in DOMAIN files'
          /\ files'[p] # files[p] =>
                /\ pc = "save"
                /\ p = ModelOutPath(args, epoch)
                /\ \A i \in DOMAIN written : written[i] # epoch]_vars

\* C6 witness: a second run, resumed from the epoch-1 checkpoint, has just
\* saved epoch 2 over the file of the first run, with parameters that differ
\* from an uninterrupted run's.
ResumedRunOverwrote ==
    /\ pc = "eval"
    /\ runs = 2
    /\ checkpoint.epoch = 1
    /\ epoch = 2
    /\ ~Uninterrupted(files[ModelOutPath(args, 2)].model)

\* C7 (as stated): every epoch e in 1..num_train_epochs starts without error
\* with the rate base_lr * 0.1^k, k = floor(e / floor(num_train_epochs * 0.8)).
EpochRateDefined ==
    /\ raised # "ZeroDivisionError:66"
    /\ (pc = "batch" /\ batch = 0) =>
          /\ lr.g = 0
          /\ lr.k * ((args.num_train_epochs * 4) \div 5) <= epoch
          /\ epoch < (lr.k + 1) * ((args.num_train_epochs * 4) \div 5)

\* C8: the optimizer step of the first batch of every epoch uses the
\* epoch-level rate of that epoch, whatever the scheduler did before; the
\* scheduler has stepped once per optimizer step, after it.
EpochRateOverwritesStepDecay ==
    /\ (pc = "sched" /\ batch = 0) =>
          LET u == params[Len(params)]
          IN /\ u.g = 0
             /\ u.k = epoch \div ((args.num_train_epochs * 4) \div 5)
             /\ u.t = optSteps
    /\ last_epoch = optSteps - (IF pc = "sched" THEN 1 ELSE 0)

\* C8 witness: the first batch of a later epoch has taken its optimizer step
\* after the scheduler had already decayed the rate in this run.
FirstBatchAfterDecay ==
    /\ pc = "sched"
    /\ batch = 0
    /\ epoch > start_epoch
    /\ step_size > 0
    /\ last_epoch >= step_size

CheckpointUnderOutputDir ==
    \A p \in DOMAIN files :
        /\ p.folder = args.output_dir
        /\ p.folder \in dirs
        /\ p.epoch = files[p].epoch

\* ------------------------------------------------------------- C11
\* C11: a train() call on a Trainer whose train_dataset is None raises (line
\* 110) as its first effect: no checkpoint is loaded, the parameters and the
\* best stay as they are, no epoch starts, and no checkpoint file, log line
\* or metric sample is written
MissingTrainDatasetFailsFirst ==
    [][(trainNone /\ calls' = calls + 1) =>
          /\ pc' = "error"
          /\ raised' = "ValueError:110"
          /\ checkpoint' = NoCheckpoint
          /\ params' = params
          /\ trained' = <<>>
          /\ files' = files
          /\ log_file' = log_file
          /\ loss_writer' = loss_writer
          /\ psnr_writer' = psnr_writer
          /\ best_epoch' = best_epoch
          /\ best_metric' = best_metric]_vars

\* a call given a checkpoint path has failed on the missing dataset
MissingTrainDatasetWithCheckpointGiven ==
    /\ trainNone
    /\ pc = "error"
    /\ raised = "ValueError:110"
    /\ check_point # NoPath
    /\ checkpoint = NoCheckpoint

\* ------------------------------------------------------------- C12
\* C12: with a dataset missing, the training or the evaluation one, the error
\* surfaces before training starts: no training batch is processed and no
\* checkpoint is written
MissingDatasetReportedBeforeTraining ==
    (trainNone \/ testNone) =>
        /\ optSteps = 0
        /\ params = <<>>
        /\ written = <<>>
        /\ files = << >>

\* ------------------------------------------------------------- C13
\* C13: a train() call given a checkpoint path that cannot be read ends with
\* the error of the load: it does not start from epoch 1 instead, no epoch is
\* trained or evaluated, no checkpoint is written, and the parameters and the
\* best stay as they are
UnreadableCheckpointIsFatal ==
    [][(calls' = calls + 1 /\ check_point' # NoPath /\ check_point' \notin DOMAIN files) =>
          /\ pc' = "error"
          /\ raised' # ""
          /\ ~trainNone => raised' = "LoadError:57"
          /\ checkpoint' = NoCheckpoint
          /\ trained' = <<>>
          /\ evaluated' = <<>>
          /\ written' = <<>>
          /\ files' = files
          /\ params' = params
          /\ best_epoch' = best_epoch
          /\ best_metric' = best_metric]_vars

\* the load failed on a Trainer that had trained, checkpointed and found a best
LoadFailedAfterTraining ==
    /\ pc = "error"
    /\ raised = "LoadError:57"
    /\ params # <<>>
    /\ files # << >>
    /\ best_epoch > 0

\* ------------------------------------------------------------- C14
\* C14: once a batch of the running epoch has produced a non-finite loss, the
\* train() call takes no further optimizer step, writes no checkpoint and
\* does not update the best (the claim's statement for the epoch of the
\* failure; the claim says the same of every later epoch)
NonFiniteLossStopsRun ==
    [][(~Returned /\ ~epoch_losses.finite) =>
          /\ params' = params
          /\ optSteps' = optSteps
          /\ files' = files
          /\ written' = written
          /\ best_epoch' = best_epoch
          /\ best_metric' = best_metric]_vars

\* ------------------------------------------------------------- C15
\* how many samples with this tag and this step the two sinks hold
SampleCount(tag, step) ==
    Cardinality({i \in 1..Len(loss_writer.samples) :
                    loss_writer.samples[i] = [tag |-> tag, step |-> step]})
    + Cardinality({i \in 1..Len(psnr_writer.samples) :
                    psnr_writer.samples[i] = [tag |-> tag, step |-> step]})

\* C15: every epoch the call has evaluated has exactly one loss sample and
\* exactly one PSNR sample keyed by it in the sinks of its process; when the next epoch is
\* about to start every sample a sink has received is flushed; and at Done
\* both sinks are closed
OneSamplePairPerEpochFlushedClosed ==
    /\ \A i \in 1..Len(evaluated) :
          pc # "idle" =>
          /\ SampleCount("Loss/epoch", evaluated[i]) = 1
          /\ SampleCount("PSNR/epoch", evaluated[i]) = 1
    /\ (pc = "loop" /\ evaluated # <<>>) =>
          /\ loss_writer.flushed = Len(loss_writer.samples)
          /\ psnr_writer.flushed = Len(psnr_writer.samples)
    /\ pc = "done" =>
          /\ ~loss_writer.open
          /\ ~psnr_writer.open
          /\ loss_writer.flushed = Len(loss_writer.samples)

\* the second epoch is about to start after the first one's two samples
SecondEpochAfterFlushedSamples ==
    /\ pc = "loop"
    /\ evaluated = <<1>>
    /\ epoch = 2
    /\ epoch <= args.num_train_epochs
    /\ Len(loss_writer.samples) = 2
    /\ loss_writer.flushed = 2

\* ------------------------------------------------------------- C16
\* C16: for every num_train_epochs >= 1 every epoch gets a rate, and the
\* exponent of 0.1 in the rate of a training epoch is 0 below the threshold
\* int(num_train_epochs * 0.8) and exactly 1 from the threshold to the last epoch
SingleDropAtThreshold ==
    /\ raised # "ZeroDivisionError:66"
    /\ pc \in {"batch", "sched"} =>
          lr.k = IF epoch < Threshold(args.num_train_epochs) THEN 0 ELSE 1

\* ------------------------------------------------------------- C17
\* sum(value_i * weight_i) and sum(weight_i) over the <<value, weight>> pairs of s
RECURSIVE WeightedSum(_)
WeightedSum(s) ==
    IF s = <<>> THEN 0 ELSE s[1].loss.v * s[1].size + WeightedSum(Tail(s))
RECURSIVE TotalSize(_)
TotalSize(s) == IF s = <<>> THEN 0 ELSE s[1].size + TotalSize(Tail(s))

\* sum(loss_i * size_i) and sum(size_i) over the batches of the epoch, taken
\* from the sizes added up per loss value in S
RECURSIVE LossTimesSize(_)
LossTimesSize(S) ==
    IF S = {} THEN 0
    ELSE LET l == CHOOSE x \in S : TRUE
         IN l.v * epoch_batches[l] + LossTimesSize(S \ {l})
RECURSIVE SizeOf(_)
SizeOf(S) ==
    IF S = {} THEN 0
    ELSE LET l == CHOOSE x \in S : TRUE
         IN epoch_batches[l] + SizeOf(S \ {l})
AllFinite == \A l \in Losses : epoch_batches[l] > 0 => l.finite

\* the loss meter holds the batches of the running epoch and nothing else
LossMeterOfThisEpoch ==
    pc \in {"batch", "sched", "save", "eval", "flush"} =>
        /\ epoch_losses.count = SizeOf(Losses)
        /\ epoch_losses.finite = AllFinite
        /\ epoch_losses.finite =>
              /\ epoch_losses.sum = LossTimesSize(Losses)
              /\ SizeOf(Losses) > 0 =>
                    MeterAvg(epoch_losses) =
                        [num |-> LossTimesSize(Losses), den |-> SizeOf(Losses),
                         finite |-> TRUE]

\* C17: the loss average reported for an epoch is sum(loss_i * size_i) /
\* sum(size_i) over the batches of that epoch only, and the PSNR an evaluation
\* compares with the best is the weighted mean of the samples of that pass only
AveragesCoverOneWindow ==
    [][/\ LossMeterOfThisEpoch'
       /\ (pc = "eval" /\ pc' = "flush") =>
             LET mean == WeightedSum(EvalMetrics(epoch)) \div TotalSize(EvalMetrics(epoch))
             IN /\ WeightedSum(EvalMetrics(epoch)) = mean * TotalSize(EvalMetrics(epoch))
                /\ <<best_epoch', best_metric'>> =
                      BestAfterEval(best_epoch, best_metric, mean, epoch)]_vars

\* the second epoch reports the mean of its own two batches
SecondEpochLossReported ==
    /\ pc = "save"
    /\ epoch = 2
    /\ SizeOf(Losses) = 2
    /\ epoch_losses.sum = 3
    /\ epoch_losses.count = 2
    /\ evaluated = <<1>>

\* ------------------------------------------------------------- C18
\* C18: a first train() call with both datasets present, a training set that
\* is not empty and a checkpoint that loads, if one is given, reaches Done: it
\* never ends in an exception (an ended call stays ended, so a call that has
\* raised never reaches Done), and it is Done only with the loop variable
\* past num_train_epochs
RunReachesDone ==
    /\ (calls = 1 /\ ~trainNone /\ ~testNone /\ trainLen > 0 /\ raised # "LoadError:57") =>
          pc # "error"
    /\ pc = "done" => epoch > args.num_train_epochs

\* ------------------------------------------------------------- C19
\* the largest of 0 and the average PSNRs of the epochs in s
MaxPsnr(s) ==
    LET vals == {psnrOf[s[i]] : i \in 1..Len(s)} \cup {0}
    IN CHOOSE m \in vals : \A v \in vals : v <= m

ModeFollowsPhase ==
    /\ pc \in {"batch", "sched", "save"} => training
    /\ pc = "flush" => ~training

\* a batch of the second epoch has been trained after the first evaluation
BatchTrainedAfterEvaluation ==
    /\ pc = "sched"
    /\ epoch = 2
    /\ evaluated = <<1>>
    /\ training

====
